---- MODULE Spec2Model ----
(***************************************************************************)
(* Participant service of the event-registration API                       *)
(* (src/unnamed/part_000): the seven request handlers over the Event and   *)
(* Participant stores.  Every handler is an async function; it suspends at *)
(* each `await`, so a handler is modelled as one action per store call,    *)
(* each action being the execution of that call followed by the            *)
(* synchronous code up to the next `await`.  Requests of different callers *)
(* interleave at those points.  The first action of a handler takes the    *)
(* request from the router; the last one answers it, and the answered      *)
(* request stays visible in its slot until the system takes its next step. *)
(***************************************************************************)
EXTENDS Integers, Sequences, FiniteSets, TLC

\* ------------------------------------------------------------------ bounds
MaxRequests == 3        \* requests accepted in one behaviour
MaxRows == 2            \* participant ids the store hands out

Slots == {1, 2}             \* requests that can be in flight together
EventIds == {1, 2, 3}       \* events present in the Event store
EventParams == {1, 2, 3, 4} \* eventId path parameters (4: no such event)
IdParams == 1 .. MaxRows    \* participant id path parameters
RandomBytes == {1, 2}       \* outcomes of crypto.randomBytes(4), abstracted

NULL == -1                  \* JavaScript null / undefined

\* req.user: the organizer of event 1, and an admin
Users ==
    { [id |-> 1, role |-> "organizer"],
      [id |-> 3, role |-> "admin"] }
NoUser == [id |-> 0, role |-> "none"]

VARIABLES
    events,         \* Event store: EventIds -> event row
    rows,           \* Participant store: participant id -> row
    nextId,         \* next primary key of the Participant store
    queue,          \* email jobs accepted by addEmailJob, oldest first
    reqs,           \* Slots -> the request running, or just answered, in that slot
    started,        \* number of requests accepted so far
    lastCheckedIn   \* the participant whose check-in was the last answer given
                    \* and was a success; 0 after any other answer

vars == <<events, rows, nextId, queue, reqs, started, lastCheckedIn>>

\* ------------------------------------------------------------ the stores
EventRow(i, st, cap, org, appr) ==
    [id |-> i, status |-> st, capacity |-> cap, totalRegistrations |-> 0,
     totalAttendees |-> 0, organizerId |-> org, requiresApproval |-> appr]

\* The events as the (external) event service left them: an open event of
\* capacity 1 run by user 1, an open event of capacity 0 that requires
\* approval, and a draft without a capacity, both run by a user 2.
Catalog ==
    <<EventRow(1, "published", 1, 1, FALSE),
      EventRow(2, "published", 0, 2, TRUE),
      EventRow(3, "draft", NULL, 2, FALSE)>>

NoEvent == EventRow(0, "none", NULL, 0, FALSE)
NoRow ==
    [id |-> 0, eventId |-> 0, email |-> "", ticketNumber |-> 0, status |-> "",
     checkedIn |-> FALSE, checkInTime |-> "null", checkInMethod |-> "manual"]

\* Column defaults of a new Participant row.
DefaultRow ==
    [id |-> 0, eventId |-> 0, email |-> "", ticketNumber |-> 0, status |-> "registered",
     checkedIn |-> FALSE, checkInTime |-> "null", checkInMethod |-> "manual"]

\* Event.findByPk / Participant.findByPk
EventFindByPk(e) == IF e \in EventIds THEN events[e] ELSE NoEvent
ParticipantFindByPk(i) == IF i \in DOMAIN rows THEN rows[i] ELSE NoRow

\* { ...a, ...b }: the fields of b override those of a
Merge(a, b) == [f \in DOMAIN a |-> IF f \in DOMAIN b THEN b[f] ELSE a[f]]

\* TicketTaken of a store whose ticketNumber column is not unique
TicketNeverTaken(rs, i, t) == FALSE

\* ticketNumber is a unique column: the store refuses a second row with it.
TicketTaken(rs, i, t) == \E j \in DOMAIN rs : j # i /\ rs[j].ticketNumber = t

\* Participant.create(row): INSERT under the next primary key
ParticipantCreate(rs, i, row) ==
    [j \in DOMAIN rs \cup {i} |-> IF j = i THEN [row EXCEPT !.id = i] ELSE rs[j]]

\* participant.update(values): UPDATE ... WHERE id = i, nothing when the row is gone
ParticipantUpdate(rs, i, values) ==
    IF i \in DOMAIN rs THEN [rs EXCEPT ![i] = Merge(@, values)] ELSE rs

\* participant.destroy(): DELETE ... WHERE id = i, nothing when the row is gone
ParticipantDestroy(rs, i) == [j \in DOMAIN rs \ {i} |-> rs[j]]

\* event.increment(field, {by}) / event.decrement(field): one UPDATE statement
IncrementRegistrations(ev, e, by) ==
    [ev EXCEPT ![e].totalRegistrations = @ + by]
IncrementAttendees(ev, e, by) ==
    [ev EXCEPT ![e].totalAttendees = @ + by]

\* `x && ...` : null, undefined and 0 are falsy
Truthy(x) == x # NULL /\ x # 0

\* the guard of every organizer-only handler
AccessDenied(event, user) ==
    event.organizerId # user.id /\ user.role # "admin"

\* -------------------------------------------------------------- requests
ZeroDelta == [e \in EventIds |-> 0]

\* What a request has done to the stores so far, and its answer.
NoAnswer ==
    [status |-> 0, error |-> "",
     created |-> 0, removed |-> 0, written |-> 0, jobs |-> 0, incCalls |-> 0,
     regDelta |-> ZeroDelta, attDelta |-> ZeroDelta]

Idle ==
    [op |-> "idle", pc |-> "idle", user |-> NoUser, eventId |-> 0, id |-> 0,
     body |-> <<>>, event |-> NoEvent, participant |-> NoRow, ticketNumber |-> 0,
     list |-> <<>>, todo |-> <<>>, updated |-> 0,
     after |-> 0,   \* a check-in: lastCheckedIn when the request was accepted
     did |-> NoAnswer]

Busy(s) == reqs[s].pc \notin {"idle", "done"}
Done(s) == reqs[s].pc = "done"

Respond(r, code, err) ==
    [r EXCEPT !.pc = "done", !.did.status = code, !.did.error = err]

\* The request r after a step that turned the stores into nr, ne, nq.
Account(r, nr, ne, nq) ==
    [r EXCEPT
        !.did.created = @ + Cardinality(DOMAIN nr \ DOMAIN rows),
        !.did.removed = @ + Cardinality(DOMAIN rows \ DOMAIN nr),
        !.did.written = @ + Cardinality({i \in DOMAIN nr \cap DOMAIN rows : nr[i] # rows[i]}),
        !.did.jobs = @ + Len(nq) - Len(queue),
        !.did.regDelta = [e \in EventIds |->
                        @[e] + ne[e].totalRegistrations - events[e].totalRegistrations],
        !.did.attDelta = [e \in EventIds |->
                        @[e] + ne[e].totalAttendees - events[e].totalAttendees]]

\* One step of the request in slot s: the stores become nr, ne, nq and the
\* request becomes r.  An answer given earlier is no longer shown.
Commit(s, r, nr, ne, nq) ==
    /\ rows' = nr
    /\ events' = ne
    /\ queue' = nq
    /\ reqs' = [t \in Slots |->
                    IF t = s THEN Account(r, nr, ne, nq)
                    ELSE IF Done(t) THEN Idle ELSE reqs[t]]
    /\ lastCheckedIn' =
            IF r.pc # "done" THEN lastCheckedIn
            ELSE IF r.op = "checkIn" /\ r.did.status = 200 THEN r.id ELSE 0

\* a step that only reads
Local(s, r) == Commit(s, r, rows, events, queue) /\ UNCHANGED nextId

\* The router hands a new request to its handler, in the lowest slot that
\* holds no running request.
Accept(s) ==
    /\ started < MaxRequests
    /\ ~Busy(s)
    /\ \A t \in Slots : t < s => Busy(t)
    /\ started' = started + 1

\* the request in slot s resumes after the await it was suspended at
Resume(s, op, pc) ==
    /\ reqs[s].op = op
    /\ reqs[s].pc = pc
    /\ UNCHANGED started

Call(op) == [Idle EXCEPT !.op = op]

Init ==
    /\ events = [e \in EventIds |-> Catalog[e]]
    /\ rows = <<>>
    /\ nextId = 1
    /\ queue = <<>>
    /\ reqs = [s \in Slots |-> Idle]
    /\ started = 0
    /\ lastCheckedIn = 0

\* ---------------------------------------------------------- request bodies
RegBodies ==
    { [email |-> "a@x"],
      [email |-> "b@x", eventId |-> 2, ticketNumber |-> 1, status |-> "attended",
       checkedIn |-> TRUE, checkInTime |-> "t0"] }

UpdateBodies ==
    { [email |-> "a@x"],
      [eventId |-> 2],
      [ticketNumber |-> 1, status |-> "cancelled", checkedIn |-> TRUE] }

CheckInBodies == { <<>> }

\* a body without participantIds, and one per non-empty set of ids
BulkBodies ==
    { <<>> } \cup
    { [participantIds |-> ids, checkInMethod |-> "qr"] : ids \in SUBSET IdParams \ {{}} }

BodiesOf(op) ==
    CASE op = "update" -> UpdateBodies
      [] op = "checkIn" -> CheckInBodies
      [] OTHER -> { <<>> }

\* ---------------------------------------------------- registerParticipant
\* registrations that may still call Participant.create
Creating == {s \in Slots : reqs[s].op = "register" /\ reqs[s].pc \in {"findOne", "create"}}

\* registerParticipant with the duplicate check ahead of the capacity check
registerParticipantDuplicateFirst(s) ==
    /\ Accept(s)
    /\ nextId + Cardinality(Creating) <= MaxRows
    /\ \E eventId \in EventParams, body \in RegBodies :
        LET event == EventFindByPk(eventId)
            r == [Call("register") EXCEPT !.eventId = eventId, !.body = body,
                                          !.event = event]
            existing == \E i \in DOMAIN rows :
                           rows[i].eventId = eventId /\ rows[i].email = body.email
        IN  Local(s,
                IF event = NoEvent THEN Respond(r, 404, "Event not found")
                ELSE IF event.status # "published"
                    THEN Respond(r, 400, "Event is not open for registration")
                ELSE IF existing
                    THEN Respond(r, 400, "Already registered for this event")
                ELSE IF Truthy(event.capacity)
                        /\ event.totalRegistrations >= event.capacity
                    THEN Respond(r, 400, "Event is at full capacity")
                ELSE [r EXCEPT !.pc = "findOne"])

\* lines 10-21: Event.findByPk, then the three event checks
registerParticipant(s) ==
    /\ Accept(s)
    /\ nextId + Cardinality(Creating) <= MaxRows
    /\ \E eventId \in EventParams, body \in RegBodies :
        LET event == EventFindByPk(eventId)
            r == [Call("register") EXCEPT !.eventId = eventId, !.body = body,
                                          !.event = event]
        IN  Local(s,
                IF event = NoEvent THEN Respond(r, 404, "Event not found")
                ELSE IF event.status # "published"
                    THEN Respond(r, 400, "Event is not open for registration")
                ELSE IF Truthy(event.capacity)
                        /\ event.totalRegistrations >= event.capacity
                    THEN Respond(r, 400, "Event is at full capacity")
                ELSE [r EXCEPT !.pc = "findOne"])

\* lines 24-32: Participant.findOne, the duplicate check, the ticket number
registerFindOne(s) ==
    /\ Resume(s, "register", "findOne")
    /\ LET r == reqs[s]
           existing == \E i \in DOMAIN rows :
                          rows[i].eventId = r.eventId /\ rows[i].email = r.body.email
       IN  IF existing
           THEN Local(s, Respond(r, 400, "Already registered for this event"))
           ELSE \E bytes \in RandomBytes :
                    Local(s, [r EXCEPT !.pc = "create", !.ticketNumber = bytes])

\* NewParticipant with the body spread last, so that its fields win
NewParticipantBodyLast(r) ==
    Merge([DefaultRow EXCEPT
              !.eventId = r.eventId,
              !.ticketNumber = r.ticketNumber,
              !.status = IF r.event.requiresApproval THEN "registered" ELSE "confirmed"],
          r.body)

\* the row lines 34-39 hand to Participant.create
NewParticipant(r) ==
    [Merge(DefaultRow, r.body) EXCEPT
        !.eventId = r.eventId,
        !.ticketNumber = r.ticketNumber,
        !.status = IF r.event.requiresApproval THEN "registered" ELSE "confirmed"]

\* lines 34-39: Participant.create; a refused insert lands in the catch block
registerCreate(s) ==
    /\ Resume(s, "register", "create")
    /\ LET r == reqs[s]
           created == ParticipantCreate(rows, nextId, NewParticipant(r))
       IN  IF TicketTaken(rows, nextId, r.ticketNumber)
           THEN Local(s, Respond(r, 500, "Failed to register participant"))
           ELSE /\ nextId' = nextId + 1
                /\ Commit(s, [r EXCEPT !.pc = "increment", !.participant = created[nextId]],
                          created, events, queue)

\* registerIncrement without the increment
registerIncrementForgotten(s) ==
    /\ Resume(s, "register", "increment")
    /\ Local(s, [reqs[s] EXCEPT !.pc = "enqueue"])

\* registerIncrement as a write of the value read at line 11 plus one
registerIncrementReadThenWrite(s) ==
    /\ Resume(s, "register", "increment")
    /\ UNCHANGED nextId
    /\ LET r == reqs[s]
       IN  Commit(s, [r EXCEPT !.pc = "enqueue", !.did.incCalls = @ + 1], rows,
                  [events EXCEPT ![r.event.id].totalRegistrations =
                                        r.event.totalRegistrations + 1],
                  queue)

\* line 42: event.increment('totalRegistrations')
registerIncrement(s) ==
    /\ Resume(s, "register", "increment")
    /\ UNCHANGED nextId
    /\ LET r == reqs[s]
       IN  Commit(s, [r EXCEPT !.pc = "enqueue", !.did.incCalls = @ + 1], rows,
                  IncrementRegistrations(events, r.event.id, 1), queue)

\* lines 45-59: the template, addEmailJob, the 201 answer
registerEnqueue(s) ==
    /\ Resume(s, "register", "enqueue")
    /\ UNCHANGED nextId
    /\ LET r == reqs[s]
           job == [to |-> r.participant.email, event |-> r.event.id,
                   ticketNumber |-> r.participant.ticketNumber]
       IN  Commit(s, Respond(r, 201, "Registration successful"), rows, events,
                  Append(queue, job))

\* registerEnqueueFails with a catch block that undoes the registration
registerEnqueueFailsRollsBack(s) ==
    /\ Resume(s, "register", "enqueue")
    /\ UNCHANGED nextId
    /\ LET r == reqs[s]
       IN  Commit(s, Respond(r, 500, "Failed to register participant"),
                  ParticipantDestroy(rows, r.participant.id),
                  IncrementRegistrations(events, r.event.id, -1), queue)

\* lines 53-63: addEmailJob rejects and the catch block answers
registerEnqueueFails(s) ==
    /\ Resume(s, "register", "enqueue")
    /\ Local(s, Respond(reqs[s], 500, "Failed to register participant"))

\* --------------------------------------------------- getEventParticipants
\* lines 73-79: Event.findByPk and the access check
getEventParticipants(s) ==
    /\ Accept(s)
    /\ \E eventId \in EventParams, user \in Users :
        LET event == EventFindByPk(eventId)
            r == [Call("list") EXCEPT !.eventId = eventId, !.user = user, !.event = event]
        IN  Local(s,
                IF event = NoEvent THEN Respond(r, 404, "Event not found")
                ELSE IF AccessDenied(event, user) THEN Respond(r, 403, "Access denied")
                ELSE [r EXCEPT !.pc = "findAndCountAll"])

\* lines 92-104: Participant.findAndCountAll over the event's rows
listFindAndCountAll(s) ==
    /\ Resume(s, "list", "findAndCountAll")
    /\ LET r == reqs[s]
           count == Cardinality({i \in DOMAIN rows : rows[i].eventId = r.eventId})
       IN  Local(s, Respond([r EXCEPT !.updated = count], 200, ""))

\* ------------------------------------------- the handlers of one participant
\* lines 115-119, 138-140, 160-162, 186-187: Participant.findByPk
FindParticipant(s, op) ==
    /\ Accept(s)
    /\ \E id \in IdParams, user \in Users, body \in BodiesOf(op) :
        LET participant == ParticipantFindByPk(id)
            r == [Call(op) EXCEPT !.id = id, !.user = user, !.body = body,
                                  !.participant = participant,
                                  !.after = IF op = "checkIn" THEN lastCheckedIn ELSE 0]
        IN  Local(s,
                IF participant = NoRow THEN Respond(r, 404, "Participant not found")
                ELSE [r EXCEPT !.pc = "findEvent"])

\* line 127: getParticipantById answers once access is granted
getGranted(r) == Respond(r, 200, "")

\* line 148: updateParticipant goes on to participant.update
updateGranted(r) == [r EXCEPT !.pc = "update"]

\* line 170: deleteParticipant goes on to participant.destroy
deleteGranted(r) == [r EXCEPT !.pc = "destroy"]

\* checkInGranted without the already-checked-in check
checkInGrantedNoConflict(r) == [r EXCEPT !.pc = "update"]

\* lines 195-199: the already-checked-in check, then participant.update
checkInGranted(r) ==
    IF r.participant.checkedIn
    THEN Respond(r, 400, "Participant already checked in")
    ELSE [r EXCEPT !.pc = "update"]

\* the request r as it goes on once access is granted
Granted(r) ==
    CASE r.op = "get" -> getGranted(r)
      [] r.op = "update" -> updateGranted(r)
      [] r.op = "delete" -> deleteGranted(r)
      [] r.op = "checkIn" -> checkInGranted(r)

\* lines 122-125, 143-146, 165-168, 190-193: Event.findByPk(participant.eventId)
\* and the access check
Authorize(s, op) ==
    /\ Resume(s, op, "findEvent")
    /\ LET event == EventFindByPk(reqs[s].participant.eventId)
           r == [reqs[s] EXCEPT !.event = event]
       IN  Local(s,
               IF AccessDenied(event, r.user) THEN Respond(r, 403, "Access denied")
               ELSE Granted(r))

\* ----------------------------------------------------- getParticipantById
getParticipantById(s) == FindParticipant(s, "get")

getAuthorize(s) == Authorize(s, "get")

\* ------------------------------------------------------ updateParticipant
updateParticipant(s) == FindParticipant(s, "update")

updateAuthorize(s) == Authorize(s, "update")

\* line 148: participant.update(req.body); a refused update lands in the catch
updateUpdate(s) ==
    /\ Resume(s, "update", "update")
    /\ UNCHANGED nextId
    /\ LET r == reqs[s]
       IN  IF "ticketNumber" \in DOMAIN r.body /\ r.id \in DOMAIN rows
                /\ TicketTaken(rows, r.id, r.body.ticketNumber)
           THEN Commit(s, Respond(r, 500, "Failed to update participant"),
                       rows, events, queue)
           ELSE Commit(s, Respond(r, 200, ""),
                       ParticipantUpdate(rows, r.id, r.body), events, queue)

\* ------------------------------------------------------ deleteParticipant
deleteParticipant(s) == FindParticipant(s, "delete")

\* deleteAuthorize without the access check
deleteAuthorizeUnchecked(s) ==
    /\ Resume(s, "delete", "findEvent")
    /\ LET event == EventFindByPk(reqs[s].participant.eventId)
       IN  Local(s, [reqs[s] EXCEPT !.event = event, !.pc = "destroy"])

deleteAuthorize(s) == Authorize(s, "delete")

\* line 170: participant.destroy()
deleteDestroy(s) ==
    /\ Resume(s, "delete", "destroy")
    /\ UNCHANGED nextId
    /\ Commit(s, [reqs[s] EXCEPT !.pc = "decrement"],
              ParticipantDestroy(rows, reqs[s].id), events, queue)

\* lines 171-173: event.decrement('totalRegistrations')
deleteDecrement(s) ==
    /\ Resume(s, "delete", "decrement")
    /\ UNCHANGED nextId
    /\ LET r == reqs[s]
       IN  Commit(s, Respond([r EXCEPT !.did.incCalls = @ + 1], 200,
                             "Participant deleted successfully"),
                  rows, IncrementRegistrations(events, r.event.id, -1), queue)

\* deleteDecrementFails with a catch block that makes up for the decrement
deleteDecrementFailsCompensates(s) ==
    /\ Resume(s, "delete", "decrement")
    /\ UNCHANGED nextId
    /\ LET r == reqs[s]
       IN  Commit(s, Respond(r, 500, "Failed to delete participant"),
                  rows, IncrementRegistrations(events, r.event.id, -1), queue)

\* lines 171-177: event.decrement rejects after the row was destroyed, and the
\* catch block answers
deleteDecrementFails(s) ==
    /\ Resume(s, "delete", "decrement")
    /\ Local(s, Respond(reqs[s], 500, "Failed to delete participant"))

\* ----------------------------------------------------- checkInParticipant
\* lines 184, 218: checkInMethod = 'manual' unless the body names one
CheckInMethod(body) ==
    IF "checkInMethod" \in DOMAIN body THEN body.checkInMethod ELSE "manual"

\* lines 199-204, 241-246: the fields a check-in writes
CheckInValues(body) ==
    [checkedIn |-> TRUE, checkInTime |-> "now", checkInMethod |-> CheckInMethod(body),
     status |-> "attended"]

checkInParticipant(s) == FindParticipant(s, "checkIn")

\* lines 190-197: the access check, then the already-checked-in check
checkInAuthorize(s) == Authorize(s, "checkIn")

\* lines 199-204: participant.update
checkInUpdate(s) ==
    /\ Resume(s, "checkIn", "update")
    /\ UNCHANGED nextId
    /\ LET r == reqs[s]
       IN  Commit(s, [r EXCEPT !.pc = "increment"],
                  ParticipantUpdate(rows, r.id, CheckInValues(r.body)), events, queue)

\* lines 206-208: event.increment('totalAttendees')
checkInIncrement(s) ==
    /\ Resume(s, "checkIn", "increment")
    /\ UNCHANGED nextId
    /\ LET r == reqs[s]
       IN  Commit(s, Respond([r EXCEPT !.did.incCalls = @ + 1], 200, "Check-in successful"),
                  rows, IncrementAttendees(events, r.event.id, 1), queue)

\* ------------------------------------------------------------ bulkCheckIn
\* the orders in which the store may return the rows with ids in S
Orders(S) ==
    {o \in [1 .. Cardinality(S) -> S] : \A i, j \in DOMAIN o : i # j => o[i] # o[j]}

\* lines 218-230: the array check, Participant.findAll
bulkCheckIn(s) ==
    /\ Accept(s)
    /\ \E user \in Users, body \in BulkBodies :
        LET r == [Call("bulk") EXCEPT !.user = user, !.body = body]
        IN  IF "participantIds" \notin DOMAIN body
            THEN Local(s, Respond(r, 400, "participantIds must be an array"))
            ELSE \E o \in Orders(body.participantIds \cap DOMAIN rows) :
                    LET participants == [k \in DOMAIN o |-> rows[o[k]]]
                    IN  Local(s,
                            IF Len(participants) = 0
                            THEN Respond(r, 404, "No participants found")
                            ELSE [r EXCEPT !.pc = "findEvent", !.list = participants])

NotCheckedIn(p) == ~p.checkedIn

\* bulkAuthorize with the access check made on every participant's event
bulkAuthorizeEvery(s) ==
    /\ Resume(s, "bulk", "findEvent")
    /\ LET event == EventFindByPk(reqs[s].list[1].eventId)
           r == [reqs[s] EXCEPT !.event = event]
           todo == SelectSeq(r.list, NotCheckedIn)
           denied == \E k \in DOMAIN r.list :
                        AccessDenied(EventFindByPk(r.list[k].eventId), r.user)
       IN  Local(s,
               IF denied THEN Respond(r, 403, "Access denied")
               ELSE [r EXCEPT !.todo = todo,
                              !.pc = IF todo = <<>> THEN "increment" ELSE "update"])

\* lines 233-240: the access check on the first participant's event, then the
\* loop up to its first participant.update
bulkAuthorize(s) ==
    /\ Resume(s, "bulk", "findEvent")
    /\ LET event == EventFindByPk(reqs[s].list[1].eventId)
           r == [reqs[s] EXCEPT !.event = event]
           todo == SelectSeq(r.list, NotCheckedIn)
       IN  Local(s,
               IF AccessDenied(event, r.user) THEN Respond(r, 403, "Access denied")
               ELSE [r EXCEPT !.todo = todo,
                              !.pc = IF todo = <<>> THEN "increment" ELSE "update"])

\* lines 241-248: participant.update of the next participant not checked in
bulkUpdate(s) ==
    /\ Resume(s, "bulk", "update")
    /\ UNCHANGED nextId
    /\ LET r == reqs[s]
       IN  Commit(s, [r EXCEPT !.todo = Tail(@), !.updated = @ + 1,
                               !.pc = IF Tail(r.todo) = <<>> THEN "increment" ELSE "update"],
                  ParticipantUpdate(rows, Head(r.todo).id, CheckInValues(r.body)),
                  events, queue)

\* bulkIncrement by the number of participants fetched
bulkIncrementByFetched(s) ==
    /\ Resume(s, "bulk", "increment")
    /\ UNCHANGED nextId
    /\ LET r == reqs[s]
       IN  Commit(s, Respond([r EXCEPT !.did.incCalls = @ + 1], 200, "participants checked in"),
                  rows, IncrementAttendees(events, r.event.id, Len(r.list)), queue)

\* lines 251-253: event.increment('totalAttendees', { by: updated.length })
bulkIncrement(s) ==
    /\ Resume(s, "bulk", "increment")
    /\ UNCHANGED nextId
    /\ LET r == reqs[s]
       IN  Commit(s, Respond([r EXCEPT !.did.incCalls = @ + 1], 200, "participants checked in"),
                  rows, IncrementAttendees(events, r.event.id, r.updated), queue)

\* ------------------------------------------------------------------ system
Step(s) ==
    \/ registerParticipant(s)
    \/ registerFindOne(s)
    \/ registerCreate(s)
    \/ registerIncrement(s)
    \/ registerEnqueue(s)
    \/ registerEnqueueFails(s)
    \/ getEventParticipants(s)
    \/ listFindAndCountAll(s)
    \/ getParticipantById(s)
    \/ getAuthorize(s)
    \/ updateParticipant(s)
    \/ updateAuthorize(s)
    \/ updateUpdate(s)
    \/ deleteParticipant(s)
    \/ deleteAuthorize(s)
    \/ deleteDestroy(s)
    \/ deleteDecrement(s)
    \/ deleteDecrementFails(s)
    \/ checkInParticipant(s)
    \/ checkInAuthorize(s)
    \/ checkInUpdate(s)
    \/ checkInIncrement(s)
    \/ bulkCheckIn(s)
    \/ bulkAuthorize(s)
    \/ bulkUpdate(s)
    \/ bulkIncrement(s)

Next == \E s \in Slots : Step(s)

Spec == Init /\ [][Next]_vars

\* one request at a time: a request is accepted only when none is running
Sequential == \A s \in Slots : ~Busy(s) \/ (\A t \in Slots \ {s} : ~Busy(t))
SeqNext == Next /\ Sequential'
SeqSpec == Init /\ [][SeqNext]_vars

\* only register, delete, check-in and bulk check-in requests, and no call that
\* fails: no request is answered 500
Plain ==
    \A s \in Slots :
        /\ reqs[s].op \in {"idle", "register", "delete", "checkIn", "bulk"}
        /\ reqs[s].did.status # 500
PlainNext == Next /\ Plain'
PlainSpec == Init /\ [][PlainNext]_vars

\* registrations only
OnlyRegistrations == \A s \in Slots : reqs[s].op \in {"idle", "register"}
RegNext == Next /\ OnlyRegistrations'
RegSpec == Init /\ [][RegNext]_vars

\* the same, one request at a time
SeqPlainNext == Next /\ Sequential' /\ Plain'
SeqPlainSpec == Init /\ [][SeqPlainNext]_vars

\* ------------------------------------------------------------------ claims
NoEffect(d) ==
    /\ d.created = 0 /\ d.removed = 0 /\ d.written = 0 /\ d.jobs = 0
    /\ d.regDelta = ZeroDelta /\ d.attDelta = ZeroDelta

\* the change of one counter of event e by n, and of no other event's
Only(e, n) == [x \in EventIds |-> IF x = e THEN n ELSE 0]

Answered(s, op, code) ==
    reqs[s].op = op /\ reqs[s].pc = "done" /\ reqs[s].did.status = code

\* the caller is neither the organizer of event e nor an admin
Outsider(user, e) == events[e].organizerId # user.id /\ user.role # "admin"

\* C1: for every event whose capacity is set, totalRegistrations never exceeds
\* capacity, in any reachable state, under any interleaving of registrations.
\* Stated for the capacities of at least 1, which every reading of "set" covers.
C1_CapacityNeverExceeded ==
    \A e \in EventIds :
        events[e].capacity # NULL /\ events[e].capacity >= 1
            => events[e].totalRegistrations <= events[e].capacity

\* C2: in every reachable state the participant store holds at most one row per
\* (eventId, email) pair.
C2_OneRowPerEventAndEmail ==
    \A i, j \in DOMAIN rows :
        i # j => ~(rows[i].eventId = rows[j].eventId /\ rows[i].email = rows[j].email)

\* C3: a registration on a published event whose capacity is set (any integer
\* >= 0) and whose totalRegistrations equals that capacity is answered 400
\* "full capacity" at once, creates no row and leaves the counter unchanged.
C3_FullEventRefuses ==
    \A s \in Slots :
        LET r == reqs[s]
        IN  (/\ r.op = "register"
             /\ r.event.status = "published"
             /\ r.event.capacity # NULL
             /\ r.event.capacity >= 0
             /\ r.event.totalRegistrations = r.event.capacity)
            => /\ r.pc = "done"
               /\ r.did.status = 400
               /\ r.did.error = "Event is at full capacity"
               /\ NoEffect(r.did)

\* C4: a registration answered 201 has raised its event's totalRegistrations by
\* exactly 1 (one increment call, no other counter touched) and enqueued exactly
\* one job; a registration enqueues a job only once it has created its row and
\* incremented the counter; a registration refused with 404 or 400 enqueues none.
C4_RegistrationCountsOnceAndEnqueuesOnce ==
    \A s \in Slots :
        LET r == reqs[s]
        IN  r.op = "register" =>
                /\ r.did.jobs > 0 =>
                        r.did.created = 1 /\ r.did.regDelta = Only(r.eventId, 1)
                /\ (r.pc = "done" /\ r.did.status = 201) =>
                        /\ r.did.jobs = 1
                        /\ r.did.created = 1
                        /\ r.did.incCalls = 1
                        /\ r.did.regDelta = Only(r.eventId, 1)
                        /\ r.did.attDelta = ZeroDelta
                /\ (r.pc = "done" /\ r.did.status \in {400, 404}) => r.did.jobs = 0

C4_Witness ==
    \E s \in Slots :
        /\ Answered(s, "register", 201)
        /\ events[reqs[s].eventId].totalRegistrations >= 1
        /\ Len(queue) >= 1

\* C5: a list, get, update, delete or check-in request on an existing target,
\* from a caller who is neither the owning event's organizer nor an admin,
\* never gets past the access check: it changes no participant row, no counter
\* and no queue, and its answer is 403.
C5_OutsiderIsRefused ==
    \A s \in Slots :
        LET r == reqs[s]
            outsider ==
                \/ /\ r.op = "list"
                   /\ r.eventId \in EventIds
                   /\ Outsider(r.user, r.eventId)
                \/ /\ r.op \in {"get", "update", "delete", "checkIn"}
                   /\ r.participant # NoRow
                   /\ Outsider(r.user, r.participant.eventId)
        IN  outsider =>
                /\ NoEffect(r.did)
                /\ r.did.incCalls = 0
                /\ r.pc \in {"findEvent", "done"}
                /\ r.pc = "done" => r.did.status = 403

C5_Witness ==
    \E s \in Slots :
        /\ reqs[s].op \in {"update", "delete", "checkIn"}
        /\ reqs[s].pc = "done"
        /\ reqs[s].did.status = 403
        /\ reqs[s].id \in DOMAIN rows
        /\ Outsider(reqs[s].user, rows[reqs[s].id].eventId)

\* C6: with one request at a time, a check-in by an authorized caller of a
\* participant not yet checked in is answered 200, leaves the row with
\* checkedIn = TRUE and status "attended" and raises the event's totalAttendees
\* by exactly 1; a check-in of the same participant by an authorized caller that
\* comes right after it is answered 400 "already checked in" and changes
\* nothing, so that the two together raise totalAttendees by exactly 1.
C6_SecondCheckInConflicts ==
    \A s \in Slots :
        LET r == reqs[s]
            allowed == r.participant # NoRow /\ ~Outsider(r.user, r.participant.eventId)
        IN  (r.op = "checkIn" /\ r.pc = "done" /\ allowed) =>
                /\ ~r.participant.checkedIn =>
                        /\ r.did.status = 200
                        /\ r.id \in DOMAIN rows
                        /\ rows[r.id].checkedIn
                        /\ rows[r.id].status = "attended"
                        /\ r.did.attDelta = Only(r.participant.eventId, 1)
                /\ r.after = r.id =>
                        /\ r.did.status = 400
                        /\ r.did.error = "Participant already checked in"
                        /\ NoEffect(r.did)
                        /\ rows[r.id].checkedIn
                        /\ rows[r.id].status = "attended"

C6_Witness ==
    \E s \in Slots :
        /\ Answered(s, "checkIn", 400)
        /\ reqs[s].after = reqs[s].id
        /\ events[reqs[s].participant.eventId].totalAttendees = 1

\* C7: a bulk check-in by an authorized caller that fetched N participants, all
\* of one event, K of them already checked in, is answered 200, has raised that
\* event's totalAttendees by exactly N-K in a single increment call made after
\* its last update, raised no other counter, and reports N-K updated.
SameEvent(list) == \A k \in DOMAIN list : list[k].eventId = list[1].eventId
CheckedIn(list) == Len(SelectSeq(list, LAMBDA p : p.checkedIn))

C7_BulkCountsTheNewlyCheckedIn ==
    \A s \in Slots :
        LET r == reqs[s]
            n == Len(r.list)
            k == CheckedIn(r.list)
        IN  (/\ r.op = "bulk"
             /\ n > 0
             /\ SameEvent(r.list)
             /\ ~Outsider(r.user, r.list[1].eventId))
            => IF r.pc = "done"
               THEN /\ r.did.status = 200
                    /\ r.updated = n - k
                    /\ r.did.attDelta = Only(r.list[1].eventId, n - k)
                    /\ r.did.incCalls = 1
                    /\ r.did.regDelta = ZeroDelta
               ELSE r.did.attDelta = ZeroDelta /\ r.did.incCalls = 0

C7_Witness ==
    \E s \in Slots :
        /\ Answered(s, "bulk", 200)
        /\ SameEvent(reqs[s].list)
        /\ Len(reqs[s].list) = 2
        /\ CheckedIn(reqs[s].list) = 1
        /\ reqs[s].did.attDelta[reqs[s].list[1].eventId] = 1

\* C8: a delete answered 200 has itself removed the participant row, the row is
\* gone, and it has lowered the owning event's totalRegistrations by exactly 1,
\* so that one removed row stands against one decrement, also when deletes of
\* the same id overlap.
C8_DeleteRemovesOneRowAndCountsOnce ==
    \A s \in Slots :
        Answered(s, "delete", 200) =>
            /\ reqs[s].id \notin DOMAIN rows
            /\ reqs[s].did.removed = 1
            /\ reqs[s].did.regDelta = Only(reqs[s].participant.eventId, -1)

\* C9: every row created by a registration has status "registered" when the
\* event requires approval and "confirmed" otherwise, the eventId of the path
\* and the generated ticket number, whatever the body supplies for them.
C9_CreatedRowIgnoresBody ==
    [][\A i \in DOMAIN rows' \ DOMAIN rows :
          \E s \in Slots :
             /\ reqs[s].op = "register" /\ reqs[s].pc = "create"
             /\ rows'[i].eventId = reqs[s].eventId
             /\ rows'[i].ticketNumber = reqs[s].ticketNumber
             /\ rows'[i].status =
                    IF events[reqs[s].eventId].requiresApproval
                    THEN "registered" ELSE "confirmed"]_vars

\* a row created from a body that names another status, eventId and ticketNumber
C9_Witness ==
    \E s \in Slots :
        LET r == reqs[s]
        IN  /\ r.op = "register" /\ r.did.created = 1
            /\ {"status", "eventId", "ticketNumber"} \subseteq DOMAIN r.body
            /\ r.body.eventId # r.eventId
            /\ r.body.ticketNumber # r.ticketNumber
            /\ r.body.status # r.participant.status
            /\ r.participant.id \in DOMAIN rows
            /\ rows[r.participant.id] = r.participant

\* C10: totalRegistrations and totalAttendees of every event are non-negative
\* in every reachable state.
C10_CountersNonNegative ==
    \A e \in EventIds :
        events[e].totalRegistrations >= 0 /\ events[e].totalAttendees >= 0

\* C11: for every event, totalAttendees <= totalRegistrations in every state
\* reached by register, check-in, bulk check-in and delete requests, also after
\* the delete of a participant that was checked in.
C11_AttendeesAtMostRegistrations ==
    \A e \in EventIds : events[e].totalAttendees <= events[e].totalRegistrations

C13_EnqueueFailureKeepsRegistration ==
    \A s \in Slots :
        LET r == reqs[s]
        IN  (r.op = "register" /\ r.pc = "done" /\ r.did.created = 1 /\ r.did.jobs = 0)
            => /\ r.did.status = 500
               /\ r.did.error = "Failed to register participant"
               /\ r.did.removed = 0
               /\ r.did.written = 0
               /\ r.did.incCalls = 1
               /\ r.did.regDelta = Only(r.eventId, 1)
               /\ r.did.attDelta = ZeroDelta

\* after the failed enqueue the row is in the store and counted, with no job
C13_Witness ==
    \E s \in Slots :
        LET r == reqs[s]
        IN  /\ Answered(s, "register", 500)
            /\ r.did.created = 1
            /\ r.participant.id \in DOMAIN rows
            /\ rows[r.participant.id] = r.participant
            /\ events[r.eventId].totalRegistrations = 1
            /\ queue = <<>>

\* C14: a registration reports the first violated precondition in the order
\* event exists (404), event published (400 not open), capacity not reached
\* (400 full), no row with the same eventId and email (400 already registered):
\* a full event answers "full capacity" whatever rows it holds, "already
\* registered" is answered only for a published event that was not full, and
\* every such refusal leaves the stores, the counters and the queue unchanged.
AtCapacity(event) ==
    Truthy(event.capacity) /\ event.totalRegistrations >= event.capacity

RowsOf(e) == {i \in DOMAIN rows : rows[i].eventId = e}
Incrementing(e) ==
    {s \in Slots : reqs[s].op = "register" /\ reqs[s].pc = "increment"
                        /\ reqs[s].eventId = e}

C15_NoIncrementIsLost ==
    \A e \in EventIds :
        events[e].totalRegistrations
            = Cardinality(RowsOf(e)) - Cardinality(Incrementing(e))

\* two registrations that both read totalRegistrations = 0 and have both
\* incremented: the counter is 2
C15_Witness ==
    \E s, t \in Slots :
        /\ s # t
        /\ reqs[s].op = "register" /\ reqs[t].op = "register"
        /\ reqs[s].eventId = reqs[t].eventId
        /\ reqs[s].pc = "enqueue" /\ reqs[t].pc = "enqueue"
        /\ reqs[s].event.totalRegistrations = 0
        /\ reqs[t].event.totalRegistrations = 0
        /\ events[reqs[s].eventId].totalRegistrations = 2

\* C16: a bulk check-in whose fetched participants span several events is
\* authorized by the first fetched participant's event alone: when the caller
\* may act on that event, the request is answered 200, every fetched
\* participant not yet checked in has been checked in whatever its event, and
\* the whole number of them has been added to the first participant's event's
\* totalAttendees, no other event's counter being touched.
C16_BulkAuthorizesByFirstEventOnly ==
    \A s \in Slots :
        LET r == reqs[s]
            n == Len(r.list)
            k == CheckedIn(r.list)
        IN  (/\ r.op = "bulk"
             /\ r.pc = "done"
             /\ n > 0
             /\ ~SameEvent(r.list)
             /\ ~Outsider(r.user, r.list[1].eventId))
            => /\ r.did.status = 200
               /\ r.updated = n - k
               /\ r.did.written <= n - k
               /\ \A j \in DOMAIN r.list :
                     r.list[j].id \in DOMAIN rows => rows[r.list[j].id].checkedIn
               /\ r.did.attDelta = Only(r.list[1].eventId, n - k)
               /\ r.did.regDelta = ZeroDelta

\* the organizer of the first participant's event only, checking in a
\* participant of an event that is not theirs
C16_Witness ==
    \E s \in Slots :
        LET r == reqs[s]
        IN  /\ Answered(s, "bulk", 200)
            /\ Len(r.list) = 2
            /\ r.user.role # "admin"
            /\ ~Outsider(r.user, r.list[1].eventId)
            /\ Outsider(r.user, r.list[2].eventId)
            /\ ~r.list[1].checkedIn /\ ~r.list[2].checkedIn
            /\ r.list[2].id \in DOMAIN rows
            /\ rows[r.list[2].id].checkedIn
            /\ rows[r.list[2].id].eventId = r.list[2].eventId
            /\ events[r.list[1].eventId].totalAttendees = 2
            /\ events[r.list[2].eventId].totalAttendees = 0

\* C17: whenever no request is in flight, each event's totalRegistrations equals
\* the number of participant rows of that event, in every state reached from
\* empty events by interleaved register, delete, check-in and bulk check-in
\* requests none of whose calls fails.
C17_QuiescentCounterEqualsRows ==
    (\A s \in Slots : ~Busy(s)) =>
        \A e \in EventIds : events[e].totalRegistrations = Cardinality(RowsOf(e))

\* C18: each participant contributes at most 1 to totalAttendees, under any
\* interleaving of check-in and bulk check-in requests that name it: the
\* attendees counted over all events never outnumber the participants that were
\* ever created.
TotalAttendees ==
    LET RECURSIVE Sum(_)
        Sum(S) == IF S = {} THEN 0
                  ELSE LET e == CHOOSE x \in S : TRUE
                       IN  events[e].totalAttendees + Sum(S \ {e})
    IN  Sum(EventIds)

C18_EachParticipantCountsOnce == TotalAttendees <= nextId - 1

\* C19: a registration never creates a row with checkedIn = TRUE or with a
\* checkInTime, whatever its body holds, so that a row is checked in only by an
\* authorized check-in, which counts it in totalAttendees.
C19_RegistrationCreatesNoCheckedInRow ==
    \A s \in Slots :
        (reqs[s].op = "register" /\ reqs[s].did.created = 1) =>
            /\ ~reqs[s].participant.checkedIn
            /\ reqs[s].participant.checkInTime = "null"

\* C20: with one request at a time, a delete decrements only after it has
\* destroyed the row; a delete that fails between the two is answered the
\* generic 500, its row is gone and no counter has moved, so that
\* totalRegistrations is one more than the rows account for; and no request
\* makes up for it: every other answered request changes the totalRegistrations
\* of all events together by exactly the rows it created minus those it removed.
RegistrationsDelta(d) ==
    LET RECURSIVE Sum(_)
        Sum(S) == IF S = {} THEN 0
                  ELSE LET e == CHOOSE x \in S : TRUE
                       IN  d.regDelta[e] + Sum(S \ {e})
    IN  Sum(EventIds)

FailedAfterDestroy(r) ==
    r.op = "delete" /\ r.pc = "done" /\ r.did.removed = 1 /\ r.did.status # 200

C20_FailedDeleteLeavesCounterStale ==
    \A s \in Slots :
        LET r == reqs[s]
        IN  /\ (r.op = "delete" /\ r.did.regDelta # ZeroDelta) => r.did.removed = 1
            /\ FailedAfterDestroy(r) =>
                    /\ r.did.status = 500
                    /\ r.did.error = "Failed to delete participant"
                    /\ r.id \notin DOMAIN rows
                    /\ r.did.regDelta = ZeroDelta
                    /\ r.did.incCalls = 0
            /\ (r.pc = "done" /\ ~FailedAfterDestroy(r)) =>
                    RegistrationsDelta(r.did) = r.did.created - r.did.removed

\* the failed delete has answered: the row is gone and still counted
C20_Witness ==
    \E s \in Slots :
        LET r == reqs[s]
        IN  /\ FailedAfterDestroy(r)
            /\ r.did.status = 500
            /\ r.id \notin DOMAIN rows
            /\ events[r.participant.eventId].totalRegistrations
                    = Cardinality(RowsOf(r.participant.eventId)) + 1

====
